---- MODULE Spec2Model ----
(***************************************************************************)
(* Model of qiskit.visualization.timeline.interface.draw: the top-level    *)
(* entry point of the timeline drawer.  One call of draw is a straight     *)
(* line of statements; every statement is one action, and every call of a  *)
(* collaborator (stylesheet, canvas, plotter) either returns or raises.    *)
(* Python values are written as their repr: "None", "True", "False".       *)
(***************************************************************************)
EXTENDS Integers, Sequences, FiniteSets

VARIABLES
    pc,            \* the statement of draw that runs next ("idle": no call in progress)
    args,          \* the arguments bound by the call in progress
    objs,          \* heap of style mappings: reference -> mapping of dotted keys
    temp_style,    \* local temp_style: a reference into objs, or None
    canvas,        \* local canvas: the DrawerCanvas of this call
    i,             \* index of the for loop in progress
    calls,         \* collaborator invocations of this call, in order
    outcome,       \* how the call ended: running, returned or raised
    style0,        \* history: content of the caller's style object when the caller built it
    styleResolved, \* history: content of temp_style after line 344, before the overrides
    styleAtCanvas, \* history: content of temp_style when the canvas was constructed
    carried        \* history: a call overrode a flag that the caller's style object sets

vars == <<pc, args, objs, temp_style, canvas, i, calls, outcome,
          style0, styleResolved, styleAtCanvas, carried>>

None == "None"
PyTrue == "True"
PyFalse == "False"
PyBool == {PyTrue, PyFalse}

\* Optional sequences (tuple or list arguments): None, or the items.
NoneSeq == [none |-> TRUE, items |-> <<>>]
SomeSeq(s) == [none |-> FALSE, items |-> s]

\* Python truth value of an optional sequence, of an optional string and of
\* an optional mapping held in the heap.
TruthySeq(x) == ~x.none /\ Len(x.items) > 0
TruthyStr(s) == s # None /\ s # ""
TruthyStyle(heap, ref) == ref # None /\ DOMAIN heap[ref] # {}

(***************************************************************************)
(* Bounds of the model.                                                    *)
(***************************************************************************)
MaxBits == 2

Lanes == {"q0", "c0"}

SeqsUpTo(S, n) == UNION {[1..k -> S] : k \in 0..n}

(***************************************************************************)
(* Names of the source.                                                    *)
(***************************************************************************)
MPL == "mpl"

ControlKeys == {"formatter.control.show_idle",
                "formatter.control.show_clbits",
                "formatter.control.show_barriers",
                "formatter.control.show_delays"}

GateGenKey == "generator.gates"

StyleKeys == ControlKeys \cup {GateGenKey}

\* labels of draw, line 378-380
labels == <<"DELAY", "GATE_PARAM", "GATE_NAME">>

\* stylesheet.QiskitTimelineStyle(): the built-in defaults (docstring of draw)
QiskitTimelineStyle ==
    [k \in StyleKeys |-> IF k \in ControlKeys THEN PyTrue ELSE "[]"]

\* stylesheet.IQXStandard(): the standard preset
IQXStandard ==
    [k \in StyleKeys |->
        CASE k = "formatter.control.show_idle" -> PyFalse
          [] k = "formatter.control.show_clbits" -> PyTrue
          [] k = "formatter.control.show_barriers" -> PyFalse
          [] k = "formatter.control.show_delays" -> PyFalse
          [] OTHER -> "iqx_standard"]

\* dict.update(other): entries of other replace or extend those of d
DictUpdate(d, other) ==
    [k \in DOMAIN d \cup DOMAIN other |-> IF k \in DOMAIN other THEN other[k] ELSE d[k]]

\* d[key] = v
DictSetItem(d, key, v) ==
    [k \in DOMAIN d \cup {key} |-> IF k = key THEN v ELSE d[k]]

(***************************************************************************)
(* Arguments of a call (signature of draw, lines 31-42).                   *)
(***************************************************************************)
DefaultArgs ==
    [style |-> None, time_range |-> NoneSeq, disable_bits |-> NoneSeq,
     show_clbits |-> None, show_idle |-> None, show_barriers |-> None,
     show_delays |-> None, show_labels |-> TRUE, plotter |-> MPL,
     filename |-> None]

OptBool == {None} \cup PyBool

\* calls that vary the style arguments and leave the others at their defaults
StyleCalls ==
    {[DefaultArgs EXCEPT !.style = s, !.show_idle = a, !.show_clbits = b,
                         !.show_barriers = c, !.show_delays = d] :
        s \in {None, "user"}, a \in OptBool, b \in OptBool, c \in OptBool, d \in OptBool}

PlotterNames == {MPL, "MPL", "svg2"}

FileNames == {None, "", "out.png"}

\* calls that vary the canvas and plotter arguments and leave the style at its default
PipelineCalls ==
    {[DefaultArgs EXCEPT !.time_range = t, !.disable_bits = b, !.show_labels = l,
                         !.plotter = p, !.filename = f] :
        t \in {NoneSeq, SomeSeq(<<0, 100>>)},
        b \in {NoneSeq} \cup {SomeSeq(q) : q \in SeqsUpTo(Lanes, MaxBits)},
        l \in BOOLEAN, p \in PlotterNames, f \in FileNames}

CallArgs == StyleCalls \cup PipelineCalls

\* style mappings a caller may build: any subset of the control flags
UserStyles == UNION {[K -> PyBool] : K \in SUBSET ControlKeys}

(***************************************************************************)
(* The canvas (core.DrawerCanvas), as far as draw drives it.               *)
(***************************************************************************)
NoCanvas ==
    [made |-> FALSE, stylesheet |-> None, loaded |-> FALSE, time_range |-> NoneSeq,
     disable_bits |-> {}, disable_types |-> {}, updates |-> 0]

DrawerCanvas(stylesheet) == [NoCanvas EXCEPT !.made = TRUE, !.stylesheet = stylesheet]

load_program(c) == [c EXCEPT !.loaded = TRUE]

set_time_range(c, t) == [c EXCEPT !.time_range = t]

set_disable_bits(c, bit, remove) ==
    [c EXCEPT !.disable_bits = IF remove THEN @ \cup {bit} ELSE @ \ {bit}]

set_disable_type(c, type, remove) ==
    [c EXCEPT !.disable_types = IF remove THEN @ \cup {type} ELSE @ \ {type}]

update(c) == [c EXCEPT !.updates = 1]

(***************************************************************************)
(* The decisions of draw.                                                  *)
(***************************************************************************)
\* line 343: temp_style is a new QiskitTimelineStyle object
TempStyleAliased(style) == IF style = None THEN "temp" ELSE style
TempStyleRef(style) == "temp"

\* line 344: style or stylesheet.IQXStandard()
StyleSourceAlwaysPreset(heap, style) ==
    IF style # None THEN DictUpdate(IQXStandard, heap[style]) ELSE IQXStandard
StyleSource(heap, style) ==
    IF TruthyStyle(heap, style) THEN heap[style] ELSE IQXStandard

\* lines 347-357: if flag is not None: temp_style[key] = flag
ApplyControlToggle(d, key, flag) ==
    IF flag # None
    THEN DictSetItem(d, key, IF d[key] = PyTrue THEN PyFalse ELSE PyTrue)
    ELSE d
ApplyControl(d, key, flag) ==
    IF flag # None THEN DictSetItem(d, key, flag) ELSE d

\* lines 372-373: the bits the loop visits
BitsToDisableTail(disable_bits) ==
    IF TruthySeq(disable_bits) THEN Tail(disable_bits.items) ELSE <<>>
BitsToDisable(disable_bits) ==
    IF TruthySeq(disable_bits) THEN disable_bits.items ELSE <<>>

\* lines 377-381: the label types the loop visits
LabelsToDisableAlways(show_labels) == labels
LabelsToDisable(show_labels) == IF ~show_labels THEN labels ELSE <<>>

\* line 390: plotter == types.Plotter.MPL.value
PlotterSupportedAny(plotter) == TRUE
PlotterSupportedCaseless(plotter) == plotter \in {"mpl", "MPL"}
PlotterSupported(plotter) == plotter = MPL

\* line 402: if filename
ShouldSaveAlways(filename) == TRUE
ShouldSave(filename) == TruthyStr(filename)

\* the statements of draw in source order
Order ==
    <<"style_new", "style_update", "show_idle", "show_clbits", "show_barriers",
      "show_delays", "canvas", "load_program", "time_range", "disable_bits",
      "show_labels", "update", "plotter", "import", "MplPlotter", "plotter_draw",
      "save", "get_image", "exit">>

IndexOf(seq, x) == CHOOSE n \in 1..Len(seq) : seq[n] = x

\* orders a misplaced statement would give: update ahead of the label loop,
\* and the canvas constructed ahead of the last control property
OrderUpdateEarly ==
    <<"style_new", "style_update", "show_idle", "show_clbits", "show_barriers",
      "show_delays", "canvas", "load_program", "time_range", "disable_bits",
      "update", "show_labels", "plotter", "import", "MplPlotter", "plotter_draw",
      "save", "get_image", "exit">>
OrderCanvasEarly ==
    <<"style_new", "style_update", "show_idle", "show_clbits", "show_barriers",
      "canvas", "show_delays", "load_program", "time_range", "disable_bits",
      "show_labels", "update", "plotter", "import", "MplPlotter", "plotter_draw",
      "save", "get_image", "exit">>
SuccessorUpdateEarly(p) == OrderUpdateEarly[IndexOf(OrderUpdateEarly, p) + 1]
SuccessorCanvasEarly(p) == OrderCanvasEarly[IndexOf(OrderCanvasEarly, p) + 1]
Successor(p) == Order[IndexOf(Order, p) + 1]

\* an exception raised by a statement leaves draw: no handler catches and continues
AfterRaiseSwallowed(p) == Successor(p)
AfterRaise(p) == "exit"

(***************************************************************************)
(* State after import of the module: no call in progress.                  *)
(***************************************************************************)
Running == [kind |-> "running", error |-> None, msg |-> None]
Returned == [kind |-> "returned", error |-> None, msg |-> "get_image"]
RaisedWith(error, msg) == [kind |-> "raised", error |-> error, msg |-> msg]

EmptyHeap == [r \in {} |-> <<>>]

HeapPut(heap, ref, d) ==
    [r \in DOMAIN heap \cup {ref} |-> IF r = ref THEN d ELSE heap[r]]

Init ==
    /\ pc = "idle"
    /\ args = DefaultArgs
    /\ objs = EmptyHeap
    /\ temp_style = None
    /\ canvas = NoCanvas
    /\ i = 0
    /\ calls = <<>>
    /\ outcome = Running
    /\ style0 = <<>>
    /\ styleResolved = <<>>
    /\ styleAtCanvas = <<>>
    /\ carried = FALSE

Logged(op, arg, ok) == Append(calls, [op |-> op, arg |-> arg, ok |-> ok])

\* the statement at p completed: control moves to the next statement
Goto(p) == pc' = Successor(p)

\* the statement at p raised: the exception propagates out of draw
Raise(p, error, msg) ==
    /\ pc' = AfterRaise(p)
    /\ outcome' = RaisedWith(error, msg)

(***************************************************************************)
(* A caller invokes draw.  The caller passes no style, a style mapping it  *)
(* builds for this call, or the style object of its previous call.         *)
(***************************************************************************)
Call ==
    /\ pc = "idle"
    /\ \E a \in CallArgs :
        /\ args' = a
        /\ \/ /\ a.style = None
              /\ objs' = EmptyHeap
              /\ style0' = <<>>
              /\ carried' = FALSE
           \/ /\ a.style = "user"
              /\ \E s \in UserStyles :
                    /\ objs' = HeapPut(EmptyHeap, "user", s)
                    /\ style0' = s
              /\ carried' = FALSE
           \/ /\ a.style = "user"
              /\ "user" \in DOMAIN objs
              /\ UNCHANGED <<objs, style0, carried>>
    /\ pc' = "style_new"
    /\ UNCHANGED <<temp_style, canvas, i, calls, outcome, styleResolved, styleAtCanvas>>

\* draw is left, by return or by exception: its locals are dropped, the
\* caller keeps the style object it passed
Leave ==
    /\ pc = "exit"
    /\ pc' = "idle"
    /\ args' = DefaultArgs
    /\ objs' = [r \in DOMAIN objs \ {"temp"} |-> objs[r]]
    /\ temp_style' = None
    /\ canvas' = NoCanvas
    /\ i' = 0
    /\ calls' = <<>>
    /\ outcome' = Running
    /\ styleResolved' = <<>>
    /\ styleAtCanvas' = <<>>
    /\ UNCHANGED <<style0, carried>>

\* line 343: temp_style = stylesheet.QiskitTimelineStyle()
StyleNew ==
    /\ pc = "style_new"
    /\ temp_style' = TempStyleRef(args.style)
    /\ objs' = HeapPut(objs, temp_style', QiskitTimelineStyle)
    /\ Goto("style_new")
    /\ UNCHANGED <<args, canvas, i, calls, outcome, style0, styleResolved, styleAtCanvas,
                   carried>>

\* line 344: temp_style.update(style or stylesheet.IQXStandard())
StyleUpdate ==
    /\ pc = "style_update"
    /\ \/ /\ objs' = [objs EXCEPT ![temp_style] =
                          DictUpdate(@, StyleSource(objs, args.style))]
          /\ styleResolved' = objs'[temp_style]
          /\ calls' = Logged("style.update", "style", TRUE)
          /\ Goto("style_update")
          /\ UNCHANGED outcome
       \/ /\ calls' = Logged("style.update", "style", FALSE)
          /\ Raise("style_update", "ConfigurationError", "style")
          /\ UNCHANGED <<objs, styleResolved>>
    /\ UNCHANGED <<args, temp_style, canvas, i, style0, styleAtCanvas, carried>>

\* lines 347-357: one control property
Control(p, key, flag) ==
    /\ pc = p
    /\ objs' = [objs EXCEPT ![temp_style] = ApplyControl(@, key, flag)]
    /\ carried' = (carried \/ (flag # None /\ key \in DOMAIN style0 /\ flag # style0[key]))
    /\ Goto(p)
    /\ UNCHANGED <<args, temp_style, canvas, i, calls, outcome, style0, styleResolved,
                   styleAtCanvas>>

ShowIdle == Control("show_idle", "formatter.control.show_idle", args.show_idle)

ShowClbits == Control("show_clbits", "formatter.control.show_clbits", args.show_clbits)

ShowBarriers ==
    Control("show_barriers", "formatter.control.show_barriers", args.show_barriers)

ShowDelays == Control("show_delays", "formatter.control.show_delays", args.show_delays)

\* line 360: canvas = core.DrawerCanvas(stylesheet=temp_style)
NewCanvas ==
    /\ pc = "canvas"
    /\ canvas' = DrawerCanvas(temp_style)
    /\ styleAtCanvas' = objs[temp_style]
    /\ calls' = Logged("DrawerCanvas", "temp_style", TRUE)
    /\ Goto("canvas")
    /\ UNCHANGED <<args, objs, temp_style, i, outcome, style0, styleResolved, carried>>

\* line 361: canvas.load_program(program=program)
LoadProgram ==
    /\ pc = "load_program"
    /\ \/ /\ canvas' = load_program(canvas)
          /\ calls' = Logged("load_program", "program", TRUE)
          /\ Goto("load_program")
          /\ UNCHANGED outcome
       \/ /\ calls' = Logged("load_program", "program", FALSE)
          /\ Raise("load_program", "UnscheduledProgramError", "program")
          /\ UNCHANGED canvas
    /\ UNCHANGED <<args, objs, temp_style, i, style0, styleResolved, styleAtCanvas, carried>>

\* lines 368-369: if time_range: canvas.set_time_range(*time_range)
TimeRange ==
    /\ pc = "time_range"
    /\ \/ /\ ~TruthySeq(args.time_range)
          /\ Goto("time_range")
          /\ UNCHANGED <<canvas, calls, outcome>>
       \/ /\ TruthySeq(args.time_range)
          /\ canvas' = set_time_range(canvas, args.time_range)
          /\ calls' = Logged("set_time_range", "time_range", TRUE)
          /\ Goto("time_range")
          /\ UNCHANGED outcome
       \/ /\ TruthySeq(args.time_range)
          /\ calls' = Logged("set_time_range", "time_range", FALSE)
          /\ Raise("time_range", "Exception", "set_time_range")
          /\ UNCHANGED canvas
    /\ UNCHANGED <<args, objs, temp_style, i, style0, styleResolved, styleAtCanvas, carried>>

\* lines 372-374: for bit in disable_bits: canvas.set_disable_bits(bit, remove=True)
DisableBits ==
    /\ pc = "disable_bits"
    /\ LET bits == BitsToDisable(args.disable_bits) IN
       \/ /\ i >= Len(bits)
          /\ i' = 0
          /\ Goto("disable_bits")
          /\ UNCHANGED <<canvas, calls, outcome>>
       \/ /\ i < Len(bits)
          /\ canvas' = set_disable_bits(canvas, bits[i + 1], TRUE)
          /\ calls' = Logged("set_disable_bits", bits[i + 1], TRUE)
          /\ i' = i + 1
          /\ UNCHANGED <<pc, outcome>>
       \/ /\ i < Len(bits)
          /\ calls' = Logged("set_disable_bits", bits[i + 1], FALSE)
          /\ Raise("disable_bits", "Exception", "set_disable_bits")
          /\ UNCHANGED <<canvas, i>>
    /\ UNCHANGED <<args, objs, temp_style, style0, styleResolved, styleAtCanvas, carried>>

\* lines 377-382: if not show_labels: for label in labels:
\*     canvas.set_disable_type(label, remove=True)
ShowLabels ==
    /\ pc = "show_labels"
    /\ LET types == LabelsToDisable(args.show_labels) IN
       \/ /\ i >= Len(types)
          /\ i' = 0
          /\ Goto("show_labels")
          /\ UNCHANGED <<canvas, calls, outcome>>
       \/ /\ i < Len(types)
          /\ canvas' = set_disable_type(canvas, types[i + 1], TRUE)
          /\ calls' = Logged("set_disable_type", types[i + 1], TRUE)
          /\ i' = i + 1
          /\ UNCHANGED <<pc, outcome>>
       \/ /\ i < Len(types)
          /\ calls' = Logged("set_disable_type", types[i + 1], FALSE)
          /\ Raise("show_labels", "Exception", "set_disable_type")
          /\ UNCHANGED <<canvas, i>>
    /\ UNCHANGED <<args, objs, temp_style, style0, styleResolved, styleAtCanvas, carried>>

\* line 384: canvas.update()
Update ==
    /\ pc = "update"
    /\ \/ /\ canvas' = update(canvas)
          /\ calls' = Logged("update", "canvas", TRUE)
          /\ Goto("update")
          /\ UNCHANGED outcome
       \/ /\ calls' = Logged("update", "canvas", FALSE)
          /\ Raise("update", "GeneratorContractViolation", "update")
          /\ UNCHANGED canvas
    /\ UNCHANGED <<args, objs, temp_style, i, style0, styleResolved, styleAtCanvas, carried>>

\* lines 390, 398-399: the plotter name selects the plotter API
SelectPlotter ==
    /\ pc = "plotter"
    /\ \/ /\ PlotterSupported(args.plotter)
          /\ Goto("plotter")
          /\ UNCHANGED outcome
       \/ /\ ~PlotterSupported(args.plotter)
          /\ Raise("plotter", "VisualizationError", "Plotter API is not supported.")
    /\ UNCHANGED <<args, objs, temp_style, canvas, i, calls, style0, styleResolved,
                   styleAtCanvas, carried>>

\* lines 391-394: the import of MplPlotter; an ImportError is raised again
\* with a message that names Matplotlib
ImportPlotter ==
    /\ pc = "import"
    /\ \/ /\ calls' = Logged("import", "MplPlotter", TRUE)
          /\ Goto("import")
          /\ UNCHANGED outcome
       \/ /\ calls' = Logged("import", "MplPlotter", FALSE)
          /\ Raise("import", "ImportError", "Must have Matplotlib installed.")
    /\ UNCHANGED <<args, objs, temp_style, canvas, i, style0, styleResolved,
                   styleAtCanvas, carried>>

\* line 396: plotter_api = MplPlotter(canvas=canvas, axis=axis)
NewPlotter ==
    /\ pc = "MplPlotter"
    /\ \/ /\ calls' = Logged("MplPlotter", "canvas", TRUE)
          /\ Goto("MplPlotter")
          /\ UNCHANGED outcome
       \/ /\ calls' = Logged("MplPlotter", "canvas", FALSE)
          /\ Raise("MplPlotter", "Exception", "MplPlotter")
    /\ UNCHANGED <<args, objs, temp_style, canvas, i, style0, styleResolved,
                   styleAtCanvas, carried>>

\* line 397: plotter_api.draw()
PlotterDraw ==
    /\ pc = "plotter_draw"
    /\ \/ /\ calls' = Logged("plotter.draw", "canvas", TRUE)
          /\ Goto("plotter_draw")
          /\ UNCHANGED outcome
       \/ /\ calls' = Logged("plotter.draw", "canvas", FALSE)
          /\ Raise("plotter_draw", "Exception", "plotter.draw")
    /\ UNCHANGED <<args, objs, temp_style, canvas, i, style0, styleResolved,
                   styleAtCanvas, carried>>

\* lines 402-403: if filename: plotter_api.save_file(filename=filename)
SaveFile ==
    /\ pc = "save"
    /\ \/ /\ ~ShouldSave(args.filename)
          /\ Goto("save")
          /\ UNCHANGED <<calls, outcome>>
       \/ /\ ShouldSave(args.filename)
          /\ calls' = Logged("save_file", args.filename, TRUE)
          /\ Goto("save")
          /\ UNCHANGED outcome
       \/ /\ ShouldSave(args.filename)
          /\ calls' = Logged("save_file", args.filename, FALSE)
          /\ Raise("save", "PersistenceError", "save_file")
    /\ UNCHANGED <<args, objs, temp_style, canvas, i, style0, styleResolved,
                   styleAtCanvas, carried>>

\* line 405: return plotter_api.get_image()
GetImage ==
    /\ pc = "get_image"
    /\ \/ /\ calls' = Logged("get_image", "canvas", TRUE)
          /\ outcome' = Returned
          /\ Goto("get_image")
       \/ /\ calls' = Logged("get_image", "canvas", FALSE)
          /\ Raise("get_image", "Exception", "get_image")
    /\ UNCHANGED <<args, objs, temp_style, canvas, i, style0, styleResolved,
                   styleAtCanvas, carried>>

Next ==
    \/ Call
    \/ StyleNew
    \/ StyleUpdate
    \/ ShowIdle
    \/ ShowClbits
    \/ ShowBarriers
    \/ ShowDelays
    \/ NewCanvas
    \/ LoadProgram
    \/ TimeRange
    \/ DisableBits
    \/ ShowLabels
    \/ Update
    \/ SelectPlotter
    \/ ImportPlotter
    \/ NewPlotter
    \/ PlotterDraw
    \/ SaveFile
    \/ GetImage
    \/ Leave

Spec == Init /\ [][Next]_vars

(***************************************************************************)
(* Reading the record of invocations.                                      *)
(***************************************************************************)
Positions(op) == {j \in 1..Len(calls) : calls[j].op = op}
Called(op) == Positions(op) # {}
Count(op) == Cardinality(Positions(op))
AllOk == \A j \in 1..Len(calls) : calls[j].ok
LastCall == calls[Len(calls)]

CanvasSetters == {"set_time_range", "set_disable_bits", "set_disable_type"}
PlotterOps == {"import", "MplPlotter", "plotter.draw", "save_file", "get_image"}

RaisedError(error) == outcome.kind = "raised" /\ outcome.error = error

FlagArg(key) ==
    CASE key = "formatter.control.show_idle" -> args.show_idle
      [] key = "formatter.control.show_clbits" -> args.show_clbits
      [] key = "formatter.control.show_barriers" -> args.show_barriers
      [] key = "formatter.control.show_delays" -> args.show_delays

C2_OverrideReplaces ==
    canvas.made =>
        /\ DOMAIN styleAtCanvas = DOMAIN styleResolved
        /\ \A key \in ControlKeys :
              styleAtCanvas[key] =
                  IF FlagArg(key) # None THEN FlagArg(key) ELSE styleResolved[key]
        /\ \A key \in DOMAIN styleAtCanvas \ ControlKeys :
              styleAtCanvas[key] = styleResolved[key]

C2_Witness ==
    /\ canvas.made
    /\ args.show_idle = PyTrue
    /\ styleResolved["formatter.control.show_idle"] = PyTrue
    /\ args.show_delays = PyTrue
    /\ styleResolved["formatter.control.show_delays"] = PyFalse
    /\ args.show_clbits = None
    /\ styleAtCanvas["formatter.control.show_clbits"] = PyFalse
    /\ args.show_barriers = PyFalse
    /\ styleResolved["formatter.control.show_barriers"] = PyTrue

\* C3: with show_labels false the types disabled on the canvas when update
\* runs are exactly DELAY, GATE_PARAM and GATE_NAME, each by one call of
\* set_disable_type; with show_labels true draw never calls set_disable_type.
LabelTypes == {"DELAY", "GATE_PARAM", "GATE_NAME"}

AtUpdate == pc = "update" \/ Called("update")

C3_LabelsDisabled ==
    /\ args.show_labels => (~Called("set_disable_type") /\ canvas.disable_types = {})
    /\ \A j \in Positions("set_disable_type") : calls[j].arg \in LabelTypes
    /\ (AtUpdate /\ ~args.show_labels) =>
            /\ canvas.disable_types = LabelTypes
            /\ Count("set_disable_type") = 3
            /\ {calls[j].arg : j \in Positions("set_disable_type")} = LabelTypes

C3_Witness ==
    /\ pc = "update"
    /\ ~args.show_labels
    /\ canvas.disable_types = {"DELAY", "GATE_PARAM", "GATE_NAME"}
    /\ Count("set_disable_type") = 3

\* C4: save_file is invoked at most once, only for a call given a filename,
\* directly after the plotter's draw succeeded and never after get_image;
\* a call given no filename never invokes save_file, however it ends.
C4_SaveOnceAfterRender ==
    /\ Count("save_file") <= 1
    /\ \A j \in Positions("save_file") :
          /\ args.filename # None
          /\ calls[j].arg = args.filename
          /\ j > 1
          /\ calls[j - 1].op = "plotter.draw" /\ calls[j - 1].ok
          /\ \A k \in Positions("get_image") : j < k
    /\ args.filename = None => ~Called("save_file")
    /\ (outcome.kind = "returned" /\ Called("save_file")) =>
          calls[Len(calls) - 1].op = "save_file"

C4_Witness ==
    /\ outcome.kind = "returned"
    /\ args.filename = "out.png"
    /\ Count("save_file") = 1
    /\ LastCall.op = "get_image"

\* C5: the ImportError (its message naming Matplotlib) ends only calls whose
\* plotter name is 'mpl'; the VisualizationError ends only calls whose
\* plotter name is not 'mpl', and such a call never attempts the import.
C5_SelectionErrorsDistinct ==
    /\ RaisedError("ImportError") =>
          /\ args.plotter = MPL
          /\ outcome.msg = "Must have Matplotlib installed."
          /\ LastCall.op = "import" /\ ~LastCall.ok
    /\ RaisedError("VisualizationError") => args.plotter # MPL
    /\ args.plotter # MPL => (~Called("import") /\ ~RaisedError("ImportError"))
    /\ args.plotter = MPL => ~RaisedError("VisualizationError")

C5_Witness ==
    /\ pc = "exit"
    /\ args.plotter = MPL
    /\ RaisedError("ImportError")
    /\ Called("update")

\* C6: when update runs, the calls of set_disable_bits made by draw are one
\* per entry of disable_bits, in list order, each with remove=True, so the
\* canvas's disabled lanes are exactly the lanes of the list (none for None
\* or an empty list); draw never disables a lane outside the list.
IsDisableBits(e) == e.op = "set_disable_bits"

DisabledInOrder ==
    LET sel == SelectSeq(calls, IsDisableBits)
    IN  [j \in 1..Len(sel) |-> sel[j].arg]

ListedBits == {args.disable_bits.items[j] : j \in 1..Len(args.disable_bits.items)}

C6_DisableBitsExact ==
    /\ \A j \in Positions("set_disable_bits") : calls[j].arg \in ListedBits
    /\ canvas.disable_bits \subseteq ListedBits
    /\ AtUpdate =>
          /\ DisabledInOrder = args.disable_bits.items
          /\ canvas.disable_bits = ListedBits
          /\ \A j \in Positions("set_disable_bits") :
                calls[j].ok /\ \A k \in Positions("update") : j < k

C6_Witness ==
    /\ pc = "update"
    /\ args.disable_bits = SomeSeq(<<"c0", "q0">>)
    /\ DisabledInOrder = <<"c0", "q0">>
    /\ canvas.disable_bits = {"c0", "q0"}

\* C7: update is invoked at most once, after load_program and after every
\* setter call; a call that reaches the plotter has invoked load_program and
\* update exactly once, in the order load_program, setters, update, plotter.
C7_CanvasProtocol ==
    /\ Count("update") <= 1
    /\ Count("load_program") <= 1
    /\ \A j \in Positions("update") :
          \A k \in 1..Len(calls) :
              calls[k].op \in CanvasSetters \cup {"load_program"} => k < j
    /\ \A j \in 1..Len(calls) :
          calls[j].op \in CanvasSetters =>
              \E k \in Positions("load_program") : k < j /\ calls[k].ok
    /\ \A j \in Positions("MplPlotter") :
          /\ Count("load_program") = 1
          /\ Count("update") = 1
          /\ \A k \in Positions("update") : k < j /\ calls[k].ok
          /\ canvas.loaded /\ canvas.updates = 1

C7_Witness ==
    /\ Called("MplPlotter")
    /\ Called("set_time_range")
    /\ Called("set_disable_bits")
    /\ Called("set_disable_type")
    /\ outcome.kind = "returned"

\* C8: a failed invocation is the last one of its call: draw is left at once
\* with the exception and returns nothing.  After a failed load_program no
\* setter, update or plotter operation has run; after a failed update no
\* plotter is constructed and no file is saved.
C8_FailStop ==
    /\ \A j \in 1..Len(calls) :
          ~calls[j].ok => (j = Len(calls) /\ pc = "exit" /\ outcome.kind = "raised")
    /\ outcome.kind = "raised" => pc = "exit"
    /\ outcome.kind = "returned" => (AllOk /\ LastCall.op = "get_image")
    /\ (Called("load_program") /\ \E j \in Positions("load_program") : ~calls[j].ok) =>
          \A op \in CanvasSetters \cup {"update"} \cup PlotterOps : ~Called(op)
    /\ (Called("update") /\ \E j \in Positions("update") : ~calls[j].ok) =>
          \A op \in PlotterOps : ~Called(op)

C8_Witness ==
    /\ pc = "exit"
    /\ RaisedError("UnscheduledProgramError")
    /\ LastCall.op = "load_program"
    /\ ~LastCall.ok
    /\ Len(calls) = 3

\* C9: from the construction of the canvas on, the style the canvas holds
\* has the content it had at construction: every write of draw to the style
\* (the merge and the control overrides) precedes the construction.
C9_StyleFixedAfterCanvas ==
    canvas.made =>
        /\ canvas.stylesheet = temp_style
        /\ objs[canvas.stylesheet] = styleAtCanvas

C9_Witness ==
    /\ pc = "exit"
    /\ outcome.kind = "returned"
    /\ canvas.made
    /\ args.show_delays = PyTrue
    /\ styleResolved["formatter.control.show_delays"] = PyFalse
    /\ objs[canvas.stylesheet]["formatter.control.show_delays"] = PyTrue

\* C10: draw never changes the caller's style object; a call without
\* overrides on a style object an earlier call was given with overrides
\* resolves every control flag the style sets to the style's own value.
NoOverrides == \A key \in ControlKeys : FlagArg(key) = None

C10_CallerStyleUnchanged ==
    /\ "user" \in DOMAIN objs => objs["user"] = style0
    /\ (canvas.made /\ args.style = "user" /\ NoOverrides) =>
          \A key \in DOMAIN style0 : styleAtCanvas[key] = style0[key]

C10_Witness ==
    /\ carried
    /\ canvas.made
    /\ args.style = "user"
    /\ NoOverrides
    /\ "formatter.control.show_idle" \in DOMAIN style0
    /\ objs["user"] = style0

\* C11: the style resolved at line 344 holds the IQXStandard entries exactly
\* when the style argument is None or an empty mapping; for a non-empty
\* style it is the built-in defaults updated with that style alone.  An
\* empty mapping therefore resolves as no style does, not to the defaults.
StyleIsFalsy == args.style = None \/ style0 = <<>>

C11_PresetIffFalsy ==
    styleResolved # <<>> =>
        /\ DOMAIN styleResolved = StyleKeys
        /\ StyleIsFalsy =>
              /\ \A key \in StyleKeys : styleResolved[key] = IQXStandard[key]
              /\ styleResolved # QiskitTimelineStyle
        /\ ~StyleIsFalsy =>
              /\ \A key \in DOMAIN style0 : styleResolved[key] = style0[key]
              /\ \A key \in StyleKeys \ DOMAIN style0 :
                    styleResolved[key] = QiskitTimelineStyle[key]
              /\ styleResolved[GateGenKey] # IQXStandard[GateGenKey]

C11_Witness ==
    /\ pc = "show_idle"
    /\ args.style = "user"
    /\ "user" \in DOMAIN objs
    /\ objs["user"] = <<>>
    /\ styleResolved[GateGenKey] = "iqx_standard"
    /\ styleResolved["formatter.control.show_idle"] = PyFalse

====
